---- MODULE Spec2Model ----
(***************************************************************************)
(* A model of src/main.py: the HTTP handlers of the sustainability         *)
(* analytics backend and the warehouse tables they read and write.         *)
(*                                                                         *)
(* The warehouse (BigQuery) and the object store (GCS) are external: a     *)
(* table is a sequence of rows in insertion order, one SQL statement or    *)
(* job is one atomic step, and a statement that fails raises in the        *)
(* handler and leaves every table as it was.  Handlers of different        *)
(* requests interleave statement by statement.                             *)
(*                                                                         *)
(* Numbers: the code's floats are modelled as exact rationals.  A mass of   *)
(* CO2 is an integer number of 1/400 kg, so that 0.82 kg is 328 and        *)
(* 0.0525 kg is 21; quantities (units, kWh, km) are integers; a ratio is a *)
(* pair <<numerator, denominator>>.  Rounding to n decimals rounds the     *)
(* exact value, half to even; the binary rounding of floats is left out.   *)
(***************************************************************************)
EXTENDS Integers, Sequences, FiniteSets, TLC

VARIABLES
    operations,        \* sustainability_ds.operations
    utility_bills,     \* sustainability_ds.utility_bills
    upload_log,        \* sustainability_ds.upload_log
    bucket,            \* blobs of the GCS bucket BUCKET_NAME
    emission_factors,  \* sustainability_ds.emission_factors (reference data)
    req,               \* the requests: handler, position, locals, response
    response           \* response of the last read-only (GET) handler

vars == <<operations, utility_bills, upload_log, bucket, emission_factors, req, response>>

-----------------------------------------------------------------------------
(* Bounds *)

\* Number of requests of one run.
MaxReq == 2
\* Largest number of data rows of an uploaded CSV file.
MaxRows == 1
\* Longest month string given to upload_bill.
MaxMonthLen == 8
\* Largest number of rows of the operations table read by get_trends and get_metrics.
MaxOps == 3

Requests == 1..MaxReq

-----------------------------------------------------------------------------
(* Values *)

\* None, and NULL in a column.  A value that may be None is <<>> or <<v>>.
Null == <<>>

Some(v) == <<v>>

\* One data row of an uploaded CSV file, under the load job's schema.  The
\* field upload is not a column: it records which upload loaded the row (0
\* for rows that were in the warehouse when the process started).
CsvRow(u) ==
    [product_id |-> "P1", units_sold |-> Some(10), energy_kwh |-> Some(5),
     transport_km |-> Some(2), record_date |-> <<2024, 1, 1>>, upload |-> u]

\* filename = f"{uuid.uuid4()}_{file.filename}": unique per request.
UploadId(r) == r

FileName == "ops.csv"

\* Upload ids a client may name: those of the requests, the one present at
\* start, and one that never exists.
UploadIds == 0..(MaxReq + 1)

NoResult == [kind |-> "none"]

IdleReq ==
    [op |-> "none", pc |-> "idle", arg |-> Null, rows_loaded |-> 0,
     steps |-> <<>>, before |-> Null, result |-> NoResult]

-----------------------------------------------------------------------------
(* Exceptions *)

\* Variant: the handler lets the exception out.
UploadReraised(stmt) == [kind |-> "raised", at |-> stmt]

\* upload_csv: except Exception as e -> {"error": "Upload failed", "details": str(e)}
UploadFailed(stmt) ==
    [kind |-> "error", error |-> "Upload failed", details |-> stmt]

\* Any other handler has no try: the exception leaves the handler and the
\* framework answers with a server error.
Raised(stmt) == [kind |-> "raised", at |-> stmt]

-----------------------------------------------------------------------------
(* upload_csv *)

\* Variant: WRITE_TRUNCATE, the file's rows replace the table.
LoadTruncate(table, rows) == rows

\* WRITE_APPEND: the load job appends the file's rows to the table.
LoadAppend(table, rows) == table \o rows

\* Variant: the upload is not logged.
LogInsertSkipped(log, entry) == log

\* INSERT INTO sustainability_ds.upload_log ... VALUES (...)
LogInsert(log, entry) == Append(log, entry)

StartUploadCsv(r, n) ==
    /\ req[r].pc = "idle"
    /\ req' = [req EXCEPT ![r] = [IdleReq EXCEPT !.op = "upload_csv", !.pc = "storage",
                                   !.arg = [file_name |-> FileName, rows |-> n]]]
    /\ UNCHANGED <<operations, utility_bills, upload_log, bucket, emission_factors, response>>

\* blob.upload_from_file(file.file)
UploadStorage(r) ==
    /\ req[r].op = "upload_csv" /\ req[r].pc = "storage"
    /\ \/ /\ bucket' = bucket \cup {UploadId(r)}
          /\ req' = [req EXCEPT ![r].pc = "load", ![r].steps = Append(@, "storage")]
       \/ /\ bucket' = bucket
          /\ req' = [req EXCEPT ![r].pc = "done", ![r].result = UploadFailed("storage")]
    /\ UNCHANGED <<operations, utility_bills, upload_log, emission_factors, response>>

\* load_job = bq_client.load_table_from_uri(...); load_job.result()
UploadLoad(r) ==
    /\ req[r].op = "upload_csv" /\ req[r].pc = "load"
    /\ \/ /\ operations' = LoadAppend(operations,
                              [i \in 1..req[r].arg.rows |-> CsvRow(UploadId(r))])
          /\ req' = [req EXCEPT ![r].pc = "log", ![r].steps = Append(@, "load"),
                                ![r].rows_loaded = req[r].arg.rows]
       \/ /\ operations' = operations
          /\ req' = [req EXCEPT ![r].pc = "done", ![r].result = UploadFailed("load")]
    /\ UNCHANGED <<utility_bills, upload_log, bucket, emission_factors, response>>

\* The log INSERT, then return {"message": "Upload successful", "rows": rows_loaded}
UploadLog(r) ==
    /\ req[r].op = "upload_csv" /\ req[r].pc = "log"
    /\ \/ /\ upload_log' = LogInsert(upload_log,
                              [upload_id |-> UploadId(r), file_name |-> req[r].arg.file_name,
                               rows_loaded |-> req[r].rows_loaded, status |-> "SUCCESS"])
          /\ req' = [req EXCEPT ![r].pc = "done", ![r].steps = Append(@, "log"),
                                ![r].result = [kind |-> "success",
                                               message |-> "Upload successful",
                                               rows |-> req[r].rows_loaded]]
       \/ /\ upload_log' = upload_log
          /\ req' = [req EXCEPT ![r].pc = "done", ![r].result = UploadFailed("log")]
    /\ UNCHANGED <<operations, utility_bills, bucket, emission_factors, response>>

-----------------------------------------------------------------------------
(* upload_bill *)

\* A month string is a tuple of characters; Python's month[4] is month[5] here.
MonthChars == {"0", "1", "-"}

DigitChars == <<"0", "1", "2", "3", "4", "5", "6", "7", "8", "9">>

IsDigit(c) == \E i \in 1..10 : DigitChars[i] = c

DigitVal(c) == (CHOOSE i \in 1..10 : DigitChars[i] = c) - 1

\* Variant: the dash is looked for one character early.
ValidMonthDashEarly(month) == ~(Len(month) = 0 \/ Len(month) # 7 \/ month[4] # "-")

\* not (not month or len(month) != 7 or month[4] != "-")
ValidMonth(month) == ~(Len(month) = 0 \/ Len(month) # 7 \/ month[5] # "-")

YearOf(month) ==
    1000 * DigitVal(month[1]) + 100 * DigitVal(month[2])
        + 10 * DigitVal(month[3]) + DigitVal(month[4])

MonthOf(month) == 10 * DigitVal(month[6]) + DigitVal(month[7])

\* PARSE_DATE('%Y-%m-%d', '{month}-01') of a month that passed ValidMonth:
\* the statement fails unless the text is a date.
DateParses(month) ==
    /\ \A i \in {1, 2, 3, 4, 6, 7} : IsDigit(month[i])
    /\ YearOf(month) >= 1
    /\ MonthOf(month) \in 1..12

ParseDate(month) == <<YearOf(month), MonthOf(month), 1>>

\* FACTORS.get(bill_type, 0.0), in 1/400 kg per unit: 0.82, 2.68, 0.18.
Factors(bill_type) ==
    CASE bill_type = "electricity" -> 328
      [] bill_type = "fuel" -> 1072
      [] bill_type = "courier" -> 72
      [] OTHER -> 0

\* bill_id = str(uuid.uuid4()): unique per request.
BillId(r) == r

BillRow(r, a) ==
    [bill_id |-> BillId(r), bill_type |-> a.bill_type, amount |-> a.amount,
     units |-> a.units, region |-> a.region, month |-> ParseDate(a.month)]

\* The validation of the month, before any statement is sent.
StartUploadBill(r, bill_type, units, month) ==
    /\ req[r].pc = "idle"
    /\ LET a == [bill_type |-> bill_type, amount |-> 500, units |-> units,
                 region |-> "India", month |-> month]
           started == [IdleReq EXCEPT !.op = "upload_bill", !.arg = a]
       IN  req' = [req EXCEPT ![r] =
                 IF ValidMonth(month)
                 THEN [started EXCEPT !.pc = "insert"]
                 ELSE [started EXCEPT !.pc = "done",
                          !.result = [kind |-> "error",
                                      error |-> "Invalid month format. Use YYYY-MM"]]]
    /\ UNCHANGED <<operations, utility_bills, upload_log, bucket, emission_factors, response>>

\* INSERT INTO sustainability_ds.utility_bills ..., then the success payload.
BillInsert(r) ==
    /\ req[r].op = "upload_bill" /\ req[r].pc = "insert"
    /\ \/ /\ DateParses(req[r].arg.month)
          /\ utility_bills' = Append(utility_bills, BillRow(r, req[r].arg))
          /\ req' = [req EXCEPT ![r].pc = "done", ![r].steps = Append(@, "insert"),
                                ![r].result =
                                    [kind |-> "success", status |-> "success",
                                     bill_id |-> BillId(r),
                                     estimated_co2 |->
                                         req[r].arg.units * Factors(req[r].arg.bill_type)]]
       \/ /\ utility_bills' = utility_bills
          /\ req' = [req EXCEPT ![r].pc = "done", ![r].result = Raised("insert")]
    /\ UNCHANGED <<operations, upload_log, bucket, emission_factors, response>>

-----------------------------------------------------------------------------
(* delete_upload *)

\* Variant: the UPDATE flips the status instead of setting it.
SoftDeleteToggle(log, id) ==
    [i \in 1..Len(log) |->
        IF log[i].upload_id = id
        THEN [log[i] EXCEPT !.status = IF @ = "DELETED" THEN "SUCCESS" ELSE "DELETED"]
        ELSE log[i]]

\* UPDATE sustainability_ds.upload_log SET status = 'DELETED' WHERE upload_id = '{upload_id}'
SoftDelete(log, id) ==
    [i \in 1..Len(log) |->
        IF log[i].upload_id = id THEN [log[i] EXCEPT !.status = "DELETED"] ELSE log[i]]

StartDeleteUpload(r, id) ==
    /\ req[r].pc = "idle"
    /\ req' = [req EXCEPT ![r] = [IdleReq EXCEPT !.op = "delete_upload", !.pc = "update",
                                   !.arg = [upload_id |-> id]]]
    /\ UNCHANGED <<operations, utility_bills, upload_log, bucket, emission_factors, response>>

\* The UPDATE, then return {"status": "deleted", "upload_id": upload_id}
DeleteUpdate(r) ==
    /\ req[r].op = "delete_upload" /\ req[r].pc = "update"
    /\ \/ /\ upload_log' = SoftDelete(upload_log, req[r].arg.upload_id)
          /\ req' = [req EXCEPT ![r].pc = "done", ![r].steps = Append(@, "update"),
                                ![r].result = [kind |-> "success", status |-> "deleted",
                                               upload_id |-> req[r].arg.upload_id]]
       \/ /\ upload_log' = upload_log
          /\ req' = [req EXCEPT ![r].pc = "done", ![r].result = Raised("update")]
    /\ UNCHANGED <<operations, utility_bills, bucket, emission_factors, response>>

-----------------------------------------------------------------------------
(* reset_all_data *)

\* Variant: DELETE ... WHERE FALSE, nothing is deleted.
DeleteWhereFalse(table) == table

\* Variant: the DELETE spares the newest row.
DeleteAllButNewest(table) == IF table = <<>> THEN <<>> ELSE <<table[Len(table)]>>

\* DELETE FROM <table> WHERE TRUE
DeleteAll(table) == <<>>

\* Variant: the failure is swallowed and the handler goes on to its next statement.
ResetFailureSwallowed(rec, stmt, next) == [rec EXCEPT !.pc = next]

\* reset_all_data has no try: a failing statement ends the handler.
ResetFailed(rec, stmt, next) == [rec EXCEPT !.pc = "done", !.result = Raised(stmt)]

\* What the three tables hold, by the identity of their content: the uploads
\* whose rows are in operations, the bills, the uploads logged.
Snapshot ==
    [operations |-> {operations[i].upload : i \in 1..Len(operations)},
     utility_bills |-> {utility_bills[i].bill_id : i \in 1..Len(utility_bills)},
     upload_log |-> {upload_log[i].upload_id : i \in 1..Len(upload_log)}]

\* before: the content when the request arrived (not a local of the handler).
StartReset(r) ==
    /\ req[r].pc = "idle"
    /\ req' = [req EXCEPT ![r] = [IdleReq EXCEPT !.op = "reset_all_data",
                                   !.pc = "delete_operations", !.before = Snapshot]]
    /\ UNCHANGED <<operations, utility_bills, upload_log, bucket, emission_factors, response>>

ResetDeleteOperations(r) ==
    /\ req[r].op = "reset_all_data" /\ req[r].pc = "delete_operations"
    /\ \/ /\ operations' = DeleteAll(operations)
          /\ req' = [req EXCEPT ![r].pc = "delete_utility_bills",
                                ![r].steps = Append(@, "delete_operations")]
       \/ /\ operations' = operations
          /\ req' = [req EXCEPT ![r] =
                        ResetFailed(@, "delete_operations", "delete_utility_bills")]
    /\ UNCHANGED <<utility_bills, upload_log, bucket, emission_factors, response>>

ResetDeleteBills(r) ==
    /\ req[r].op = "reset_all_data" /\ req[r].pc = "delete_utility_bills"
    /\ \/ /\ utility_bills' = DeleteAll(utility_bills)
          /\ req' = [req EXCEPT ![r].pc = "delete_upload_log",
                                ![r].steps = Append(@, "delete_utility_bills")]
       \/ /\ utility_bills' = utility_bills
          /\ req' = [req EXCEPT ![r] =
                        ResetFailed(@, "delete_utility_bills", "delete_upload_log")]
    /\ UNCHANGED <<operations, upload_log, bucket, emission_factors, response>>

ResetDeleteLog(r) ==
    /\ req[r].op = "reset_all_data" /\ req[r].pc = "delete_upload_log"
    /\ \/ /\ upload_log' = DeleteAll(upload_log)
          /\ req' = [req EXCEPT ![r].pc = "return",
                                ![r].steps = Append(@, "delete_upload_log")]
       \/ /\ upload_log' = upload_log
          /\ req' = [req EXCEPT ![r] = ResetFailed(@, "delete_upload_log", "return")]
    /\ UNCHANGED <<operations, utility_bills, bucket, emission_factors, response>>

\* return {"status": "all_data_cleared"}.  left is what the tables hold at
\* that instant (not part of the payload).
ResetReturn(r) ==
    /\ req[r].op = "reset_all_data" /\ req[r].pc = "return"
    /\ req' = [req EXCEPT ![r].pc = "done",
                          ![r].result = [kind |-> "success", status |-> "all_data_cleared",
                                         left |-> Snapshot]]
    /\ UNCHANGED <<operations, utility_bills, upload_log, bucket, emission_factors, response>>

-----------------------------------------------------------------------------
(* Arithmetic of the read handlers *)

\* round(n / d, 0) for d > 0, half to even.
RoundDiv(n, d) ==
    LET q == n \div d
        r == n - q * d
    IN  IF 2 * r < d THEN q
        ELSE IF 2 * r > d THEN q + 1
        ELSE IF q % 2 = 0 THEN q ELSE q + 1

\* round(n / d, 2) for d > 0, in hundredths: the long division of n by d to
\* two decimals, then the rounding of what is left.
Round2(n, d) ==
    LET q0 == n \div d
        r0 == n - q0 * d
        q1 == (r0 * 10) \div d
        r1 == r0 * 10 - q1 * d
    IN  q0 * 100 + q1 * 10 + RoundDiv(r1 * 10, d)

\* SUM over the values of a column: NULL values are skipped, and the sum of
\* none is NULL.
SumOf(values) ==
    LET RECURSIVE Go(_)
        Go(i) == IF i = 0 THEN Null
                 ELSE LET rest == Go(i - 1)
                          v == values[i]
                      IN  IF v = Null THEN rest
                          ELSE IF rest = Null THEN v ELSE Some(rest[1] + v[1])
    IN  Go(Len(values))

\* x or 0
OrZero(x) == IF x = Null THEN 0 ELSE x[1]

\* Dates are <<year, month, day>>; their order is that of their text.
DateBefore(a, b) ==
    \/ a[1] < b[1]
    \/ a[1] = b[1] /\ a[2] < b[2]
    \/ a[1] = b[1] /\ a[2] = b[2] /\ a[3] < b[3]

-----------------------------------------------------------------------------
(* get_trends *)

\* FORMAT_DATE('%Y-%m', record_date): the text YYYY-MM, here <<year, month>>.
FormatMonth(date) == <<date[1], date[2]>>

\* ORDER BY month: the order of the texts, which is that of (year, month).
MonthBefore(a, b) == a[1] < b[1] \/ (a[1] = b[1] /\ a[2] < b[2])

RECURSIVE SortMonths(_)
SortMonths(months) ==
    IF months = {} THEN <<>>
    ELSE LET m == CHOOSE k \in months : \A o \in months : o = k \/ MonthBefore(k, o)
         IN  <<m>> \o SortMonths(months \ {m})

\* (energy_kwh * 0.82) + (transport_km * 0.0525), NULL when either is NULL.
RowCo2(row) ==
    IF row.energy_kwh = Null \/ row.transport_km = Null THEN Null
    ELSE Some(row.energy_kwh[1] * 328 + row.transport_km[1] * 21)

\* The query of get_trends: one row per month, ordered by month.
TrendsQuery(table) ==
    LET months == {FormatMonth(table[i].record_date) : i \in 1..Len(table)}
        group(m) == SelectSeq(table, LAMBDA row : FormatMonth(row.record_date) = m)
        sorted == SortMonths(months)
    IN  [k \in 1..Len(sorted) |->
            LET rows == group(sorted[k])
            IN  [month |-> sorted[k],
                 total_co2 |-> SumOf([i \in 1..Len(rows) |-> RowCo2(rows[i])]),
                 total_units |-> SumOf([i \in 1..Len(rows) |-> rows[i].units_sold])]]

\* cpu = total / units if units > 0 else 0, as <<numerator, denominator>> in 1/400 kg.
Cpu(row) ==
    IF OrZero(row.total_units) > 0
    THEN <<OrZero(row.total_co2), OrZero(row.total_units)>>
    ELSE <<0, 1>>

\* round(cpu, 4), in 1/10000 kg.
RoundCpu(cpu) == RoundDiv(cpu[1] * 25, cpu[2])

\* round(((cpu - prev_cpu) / prev_cpu) * 100, 2), in hundredths of a percent.
\* Only for prev_cpu # 0.
Trend(cpu, prev) == Round2((cpu[1] * prev[2] - prev[1] * cpu[2]) * 100, prev[1] * cpu[2])

\* The loop of get_trends over the rows of the query.  Dividing by a prev_cpu
\* of 0 raises ZeroDivisionError, which leaves the handler.
RECURSIVE TrendLoop(_, _, _, _)
TrendLoop(rows, i, prev_cpu, data) ==
    IF i > Len(rows) THEN [kind |-> "trends", status |-> "ok", data |-> data]
    ELSE LET cpu == Cpu(rows[i])
         IN  IF prev_cpu # Null /\ prev_cpu[1] = 0
             THEN [kind |-> "trends", status |-> "raised", error |-> "ZeroDivisionError"]
             ELSE TrendLoop(rows, i + 1, cpu,
                     Append(data,
                        [month |-> rows[i].month,
                         co2_per_unit |-> RoundCpu(cpu),
                         efficiency_change |->
                             IF prev_cpu # Null THEN Some(Trend(cpu, prev_cpu))
                             ELSE Null]))

GetTrends ==
    /\ response' = TrendLoop(TrendsQuery(operations), 1, Null, <<>>)
    /\ UNCHANGED <<operations, utility_bills, upload_log, bucket, emission_factors, req>>

-----------------------------------------------------------------------------
(* get_metrics *)

\* os.environ.get("REGION", "India")
Region == "India"

\* sustainability_ds.product_catalogue (reference data).
ProductCatalogue ==
    {[product_id |-> "P1", product_name |-> "Widget", category |-> "Hardware"],
     [product_id |-> "P2", product_name |-> "Anvil", category |-> "Tools"]}

\* The product names a row of the query can carry, in the order of their text.
NameOrder == <<"Anvil", "P3", "Widget">>

NameBefore(a, b) ==
    (CHOOSE i \in 1..Len(NameOrder) : NameOrder[i] = a)
        < (CHOOSE i \in 1..Len(NameOrder) : NameOrder[i] = b)

\* ORDER BY product_name
RECURSIVE SortNames(_)
SortNames(names) ==
    IF names = {} THEN <<>>
    ELSE LET m == CHOOSE k \in names : \A o \in names : o = k \/ NameBefore(k, o)
         IN  <<m>> \o SortNames(names \ {m})

\* SELECT factor, reference ... WHERE region AND activity_type ORDER BY year DESC LIMIT 1
get_emission_factor(region, activity) ==
    LET rows == {f \in emission_factors :
                    f.region = region /\ f.activity_type = activity}
    IN  IF rows = {} THEN <<Null, Null>>
        ELSE LET top == CHOOSE f \in rows : \A g \in rows : g.year <= f.year
             IN  <<Some(top.factor), top.reference>>

\* if not factor: factor = default; ref = "Default"
OrDefault(resolved, default) ==
    IF resolved[1] = Null \/ resolved[1][1] = 0 THEN <<default, "Default">>
    ELSE <<resolved[1][1], resolved[2]>>

\* IFNULL(p.product_name, o.product_id), IFNULL(p.category, 'Unknown') of the LEFT JOIN.
Catalogued(product_id) ==
    LET hit == {p \in ProductCatalogue : p.product_id = product_id}
    IN  IF hit = {} THEN [product_name |-> product_id, category |-> "Unknown"]
        ELSE LET p == CHOOSE p \in hit : TRUE
             IN  [product_name |-> p.product_name, category |-> p.category]

\* The query of get_metrics: one row per product, ordered by product_name;
\* since is a date or None.
MetricsQuery(table, since) ==
    LET kept == IF since = Null THEN table
                ELSE SelectSeq(table, LAMBDA row : ~DateBefore(row.record_date, since))
        ids == {kept[i].product_id : i \in 1..Len(kept)}
        names == {Catalogued(id).product_name : id \in ids}
        sorted == SortNames(names)
        idOf(n) == CHOOSE id \in ids : Catalogued(id).product_name = n
        group(id) == SelectSeq(kept, LAMBDA row : row.product_id = id)
    IN  [k \in 1..Len(sorted) |->
            LET id == idOf(sorted[k])
                rows == group(id)
            IN  [product_id |-> id,
                 product_name |-> sorted[k],
                 category |-> Catalogued(id).category,
                 units |-> SumOf([i \in 1..Len(rows) |-> rows[i].units_sold]),
                 energy |-> SumOf([i \in 1..Len(rows) |-> rows[i].energy_kwh]),
                 km |-> SumOf([i \in 1..Len(rows) |-> rows[i].transport_km])]]

\* One entry of data, from one row of the query.
MetricsEntry(r, energy, transport) ==
    LET energy_co2 == OrZero(r.energy) * energy[1]
        transport_co2 == OrZero(r.km) * transport[1]
    IN  [product_id |-> r.product_id, product_name |-> r.product_name,
         category |-> r.category, total_units_sold |-> OrZero(r.units),
         energy_co2_kg |-> energy_co2, transport_co2_kg |-> transport_co2,
         total_co2_kg |-> energy_co2 + transport_co2,
         energy_ref |-> energy[2], transport_ref |-> transport[2]]

GetMetrics(since) ==
    /\ LET energy == OrDefault(get_emission_factor(Region, "electricity"), 328)
           transport == OrDefault(get_emission_factor("Global", "freight_truck"), 21)
           rows == MetricsQuery(operations, since)
       IN  response' = [kind |-> "metrics", since |-> since, count |-> Len(rows),
                        data |-> [k \in 1..Len(rows) |->
                                     MetricsEntry(rows[k], energy, transport)]]
    /\ UNCHANGED <<operations, utility_bills, upload_log, bucket, emission_factors, req>>

-----------------------------------------------------------------------------
(* The requests of one run *)

NoResponse == [kind |-> "none"]

\* The warehouse outlives the process: what it may hold when the process
\* starts.  Nothing, or one earlier upload (its row, its log entry, SUCCESS or
\* already DELETED) and one earlier bill.
InitialWarehouses ==
    {[operations |-> <<>>, utility_bills |-> <<>>, upload_log |-> <<>>]}
    \cup
    {[operations |-> <<CsvRow(0)>>,
      utility_bills |-> <<[bill_id |-> 0, bill_type |-> "fuel", amount |-> 900,
                           units |-> 40, region |-> "India", month |-> <<2023, 12, 1>>]>>,
      upload_log |-> <<[upload_id |-> 0, file_name |-> FileName, rows_loaded |-> 1,
                        status |-> st]>>] : st \in {"SUCCESS", "DELETED"}}

Init ==
    /\ \E w \in InitialWarehouses :
          /\ operations = w.operations
          /\ utility_bills = w.utility_bills
          /\ upload_log = w.upload_log
    /\ bucket = {}
    /\ emission_factors = {}
    /\ req = [r \in Requests |-> IdleReq]
    /\ response = NoResponse

\* Month strings of the requests of a run: a month, and a text that is not one.
SampleMonths == {<<"0", "0", "0", "1", "-", "1", "1">>, <<"0", "0", "0", "1", "-", "1">>}

\* A request arrives.  Requests are numbered in the order of their arrival.
Arrive(r) ==
    /\ \A q \in Requests : q < r => req[q].pc # "idle"
    /\ \/ \E n \in 0..MaxRows : StartUploadCsv(r, n)
       \/ \E month \in SampleMonths : StartUploadBill(r, "electricity", 100, month)
       \/ \E id \in UploadIds : StartDeleteUpload(r, id)
       \/ StartReset(r)

\* A handler sends its next statement.
Step(r) ==
    \/ UploadStorage(r)
    \/ UploadLoad(r)
    \/ UploadLog(r)
    \/ BillInsert(r)
    \/ DeleteUpdate(r)
    \/ ResetDeleteOperations(r)
    \/ ResetDeleteBills(r)
    \/ ResetDeleteLog(r)
    \/ ResetReturn(r)

Next == \E r \in Requests : Arrive(r) \/ Step(r)

Spec == Init /\ [][Next]_vars

\* One request at a time: a request arrives only when no handler is running.
Serial == \A r \in Requests : req[r].pc \in {"idle", "done"}

NextSeq == \E r \in Requests : (Serial /\ Arrive(r)) \/ Step(r)

SpecSeq == Init /\ [][NextSeq]_vars

-----------------------------------------------------------------------------
(* Properties of the ingestion and admin handlers *)

Range(s) == {s[i] : i \in 1..Len(s)}

IsPrefix(s, t) == Len(s) <= Len(t) /\ SubSeq(t, 1, Len(s)) = s

\* Request r takes a step.
Moves(r) == req'[r] # req[r]

\* Request r ends in this step.
Ends(r) == req[r].pc # "done" /\ req'[r].pc = "done"

UploadStmts == <<"storage", "load", "log">>

ResetStmts == <<"delete_operations", "delete_utility_bills", "delete_upload_log">>

Emptied == [operations |-> {}, utility_bills |-> {}, upload_log |-> {}]

ResetSucceeded(r) ==
    /\ req[r].op = "reset_all_data" /\ req[r].pc = "done"
    /\ req[r].result.kind = "success"

\* C1: when reset_all_data answers all_data_cleared, having sent its three
\* deletes with none failing, the operations, utility-bill and upload-log
\* tables are empty, whatever they held before (requests served one at a time).
C1_ResetLeavesTablesEmpty ==
    \A r \in Requests :
        ResetSucceeded(r) =>
            /\ req[r].steps = ResetStmts
            /\ req[r].result.status = "all_data_cleared"
            /\ req[r].result.left = Emptied

\* A reset that found rows in all three tables and answered all_data_cleared.
C1_Witness ==
    \E r \in Requests :
        /\ ResetSucceeded(r)
        /\ req[r].before.operations # {}
        /\ req[r].before.utility_bills # {}
        /\ req[r].before.upload_log # {}
        /\ req[r].result.left = Emptied

LogEntryOf(r) ==
    [upload_id |-> UploadId(r), file_name |-> req[r].arg.file_name,
     rows_loaded |-> req[r].rows_loaded, status |-> "SUCCESS"]

\* C2 as stated: every upload_csv attempt, whether it ends in the success
\* payload or in the error payload, adds an entry to the upload log.
C2_EveryAttemptLogged ==
    [][\A r \in Requests :
          (Ends(r) /\ req[r].op = "upload_csv") =>
              /\ Len(upload_log') = Len(upload_log) + 1
              /\ upload_log'[Len(upload_log')].upload_id = UploadId(r)]_vars

\* C2, amended: an upload_csv attempt that ends in the success payload has
\* added its entry (its generated name, the file's name, the rows the load job
\* reported, SUCCESS) to the upload log; an attempt whose storage upload or
\* load job failed ends in the error payload and adds none.
C2_SuccessfulUploadLogged ==
    [][\A r \in Requests :
          (Ends(r) /\ req[r].op = "upload_csv") =>
              /\ req'[r].result.kind = "success" =>
                    /\ upload_log' = Append(upload_log, LogEntryOf(r))
                    /\ req'[r].result.rows = LogEntryOf(r).rows_loaded
              /\ (/\ req'[r].result.kind = "error"
                  /\ req'[r].result.details \in {"storage", "load"}) =>
                    /\ upload_log' = upload_log
                    /\ \A i \in 1..Len(upload_log) :
                          upload_log[i].upload_id # UploadId(r)]_vars

\* One upload answered with the success payload and is in the log; another
\* answered with the error payload and is not.
C2_Witness ==
    \E r, q \in Requests :
        /\ req[r].op = "upload_csv" /\ req[r].pc = "done"
        /\ req[r].result.kind = "success"
        /\ \E i \in 1..Len(upload_log) : upload_log[i].upload_id = UploadId(r)
        /\ req[q].op = "upload_csv" /\ req[q].pc = "done"
        /\ req[q].result.kind = "error"
        /\ \A i \in 1..Len(upload_log) : upload_log[i].upload_id # UploadId(q)

\* C3: a delete_upload whose UPDATE completes answers with the success
\* payload; every entry with the given id then has status DELETED and nothing
\* else in the log differs; when no entry has the id, or all that have it are
\* DELETED already, the log is unchanged; and the same UPDATE applied once
\* more to the resulting log gives that log again.
C3_SoftDeleteIdempotent ==
    [][\A r \in Requests :
          (/\ req[r].op = "delete_upload" /\ Ends(r)
           /\ req'[r].result.kind = "success") =>
              LET id == req[r].arg.upload_id
                  live == {i \in 1..Len(upload_log) :
                              /\ upload_log[i].upload_id = id
                              /\ upload_log[i].status # "DELETED"}
              IN  /\ req'[r].result = [kind |-> "success", status |-> "deleted",
                                       upload_id |-> id]
                  /\ Len(upload_log') = Len(upload_log)
                  /\ \A i \in 1..Len(upload_log) :
                        IF i \in live
                        THEN /\ upload_log'[i].status = "DELETED"
                             /\ [upload_log'[i] EXCEPT !.status = upload_log[i].status]
                                    = upload_log[i]
                        ELSE upload_log'[i] = upload_log[i]
                  /\ live = {} => upload_log' = upload_log
                  /\ SoftDelete(upload_log', id) = upload_log']_vars

\* Two delete_upload requests for the same id both answered with the success
\* payload, and the entry with that id is DELETED.
C3_Witness ==
    \E r, q \in Requests :
        /\ r # q
        /\ req[r].op = "delete_upload" /\ req[q].op = "delete_upload"
        /\ req[r].pc = "done" /\ req[q].pc = "done"
        /\ req[r].result.kind = "success" /\ req[q].result.kind = "success"
        /\ req[r].arg.upload_id = req[q].arg.upload_id
        /\ \E i \in 1..Len(upload_log) :
              /\ upload_log[i].upload_id = req[r].arg.upload_id
              /\ upload_log[i].status = "DELETED"

\* C5: upload_csv never raises.  It ends either in the success payload, with
\* the row count of the load job, after the storage upload, the load job and
\* the log insert completed in that order, or in the {error, details} payload
\* of the first of the three steps that failed, the steps before it completed
\* and the steps after it not sent.
C5_UploadNeverRaises ==
    \A r \in Requests :
        req[r].op = "upload_csv" =>
            IF req[r].pc = "done"
            THEN \/ /\ req[r].result.kind = "success"
                    /\ req[r].steps = UploadStmts
                    /\ req[r].result.rows = req[r].rows_loaded
                 \/ /\ req[r].result.kind = "error"
                    /\ req[r].result.error = "Upload failed"
                    /\ \E k \in 1..3 :
                          /\ req[r].result.details = UploadStmts[k]
                          /\ req[r].steps = SubSeq(UploadStmts, 1, k - 1)
            ELSE /\ req[r].result = NoResult
                 /\ \E k \in 1..3 :
                       /\ req[r].pc = UploadStmts[k]
                       /\ req[r].steps = SubSeq(UploadStmts, 1, k - 1)

\* An upload whose log insert failed, after the storage upload and the load
\* job completed, answered with the error payload.
C5_Witness ==
    \E r \in Requests :
        /\ req[r].op = "upload_csv" /\ req[r].pc = "done"
        /\ req[r].result = UploadFailed("log")
        /\ req[r].steps = <<"storage", "load">>
        /\ \E i \in 1..Len(operations) : operations[i].upload = UploadId(r)

\* C6 as stated: each of the three deletes of reset_all_data is sent whatever
\* the outcome of the others.
C6_EachDeleteRunsRegardless ==
    \A r \in Requests :
        (req[r].op = "reset_all_data" /\ req[r].pc = "done") =>
            \A k \in 1..3 :
                \/ ResetStmts[k] \in Range(req[r].steps)
                \/ req[r].result.kind = "raised" /\ req[r].result.at = ResetStmts[k]

ResetInOrder(r) ==
    IF req[r].pc = "done"
    THEN \/ req[r].result.kind = "success" /\ req[r].steps = ResetStmts
         \/ /\ req[r].result.kind = "raised"
            /\ \E k \in 1..3 :
                  /\ req[r].result.at = ResetStmts[k]
                  /\ req[r].steps = SubSeq(ResetStmts, 1, k - 1)
    ELSE /\ req[r].result = NoResult
         /\ \E k \in 1..4 :
               /\ req[r].pc = (ResetStmts \o <<"return">>)[k]
               /\ req[r].steps = SubSeq(ResetStmts, 1, k - 1)

\* C6, amended: reset_all_data sends its three deletes as separate statements
\* in the order operations, utility bills, upload log.  A delete that
\* completes empties its table and touches no other.  A delete that fails
\* ends the request: the deletes after it are not sent, and no table changes
\* in that step, so what the earlier deletes cleared is not restored.
C6_FailedDeleteAbortsWithoutRollback ==
    /\ [](\A r \in Requests : req[r].op = "reset_all_data" => ResetInOrder(r))
    /\ [][\A r \in Requests :
            (req[r].op = "reset_all_data" /\ Moves(r)) =>
                IF req'[r].result.kind = "raised"
                THEN UNCHANGED <<operations, utility_bills, upload_log>>
                ELSE /\ req[r].pc = "delete_operations" =>
                          operations' = <<>> /\ UNCHANGED <<utility_bills, upload_log>>
                     /\ req[r].pc = "delete_utility_bills" =>
                          utility_bills' = <<>> /\ UNCHANGED <<operations, upload_log>>
                     /\ req[r].pc = "delete_upload_log" =>
                          upload_log' = <<>> /\ UNCHANGED <<operations, utility_bills>>]_vars

\* A reset whose third delete failed: operations and utility bills, which
\* held rows, stay cleared, and the upload log keeps its entries.
C6_Witness ==
    \E r \in Requests :
        /\ req[r].op = "reset_all_data" /\ req[r].pc = "done"
        /\ req[r].result = Raised("delete_upload_log")
        /\ req[r].steps = <<"delete_operations", "delete_utility_bills">>
        /\ req[r].before.operations # {} /\ req[r].before.utility_bills # {}
        /\ operations = <<>> /\ utility_bills = <<>> /\ upload_log # <<>>

\* C9: no step changes or removes a row of operations or of utility_bills,
\* except the two deletes of reset_all_data.  upload_csv only appends to
\* operations, upload_bill only appends to utility_bills, and delete_upload
\* changes nothing but the status of upload-log entries.
C9_RowsOnlyAppendedUntilReset ==
    [][/\ \/ IsPrefix(operations, operations')
          \/ \E r \in Requests :
                /\ req[r].op = "reset_all_data" /\ req[r].pc = "delete_operations"
                /\ Moves(r)
       /\ \/ IsPrefix(utility_bills, utility_bills')
          \/ \E r \in Requests :
                /\ req[r].op = "reset_all_data" /\ req[r].pc = "delete_utility_bills"
                /\ Moves(r)
       /\ \A r \in Requests :
             /\ (req[r].op = "upload_csv" /\ Moves(r)) =>
                   /\ IsPrefix(operations, operations')
                   /\ utility_bills' = utility_bills
             /\ (req'[r].op = "upload_bill" /\ Moves(r)) =>
                   /\ IsPrefix(utility_bills, utility_bills')
                   /\ Len(utility_bills') <= Len(utility_bills) + 1
                   /\ operations' = operations
             /\ (req[r].op = "delete_upload" /\ Moves(r)) =>
                   /\ operations' = operations
                   /\ utility_bills' = utility_bills
                   /\ Len(upload_log') = Len(upload_log)
                   /\ \A i \in 1..Len(upload_log) :
                         [upload_log'[i] EXCEPT !.status = upload_log[i].status]
                             = upload_log[i]]_vars

\* An upload loaded a row and was logged, a delete_upload of its id marked
\* the entry DELETED, and the row is still in operations.
C9_Witness ==
    \E r, q \in Requests :
        /\ req[r].op = "upload_csv" /\ req[r].pc = "done"
        /\ req[r].result.kind = "success" /\ req[r].result.rows > 0
        /\ req[q].op = "delete_upload" /\ req[q].pc = "done"
        /\ req[q].result.kind = "success" /\ req[q].arg.upload_id = UploadId(r)
        /\ \E i \in 1..Len(upload_log) :
              upload_log[i].upload_id = UploadId(r) /\ upload_log[i].status = "DELETED"
        /\ \E i \in 1..Len(operations) : operations[i].upload = UploadId(r)
        /\ IsPrefix(<<CsvRow(0)>>, operations)

\* C10: the deletes of reset_all_data are separate statements and other
\* requests run between them.  Whatever the tables hold when a reset answers
\* all_data_cleared was not there when the reset arrived: it was written by
\* another request while the reset ran.
C10_LeftoverWrittenDuringReset ==
    \A r \in Requests :
        ResetSucceeded(r) =>
            /\ req[r].result.left.operations \cap req[r].before.operations = {}
            /\ req[r].result.left.utility_bills \cap req[r].before.utility_bills = {}
            /\ req[r].result.left.upload_log \cap req[r].before.upload_log = {}

\* A reset answered all_data_cleared while operations held the rows of a
\* racing upload, rows that have no upload-log entry.
C10_Witness ==
    \E r, u \in Requests :
        /\ ResetSucceeded(r)
        /\ req[u].op = "upload_csv"
        /\ UploadId(u) \in req[r].result.left.operations
        /\ UploadId(u) \notin req[r].result.left.upload_log

\* A reset answered all_data_cleared while the upload log held the entry of a
\* racing upload whose rows the reset had deleted.
C10_LogEntryWithoutRows ==
    \E r, u \in Requests :
        /\ ResetSucceeded(r)
        /\ req[u].op = "upload_csv" /\ req[u].rows_loaded > 0
        /\ UploadId(u) \in req[r].result.left.upload_log
        /\ UploadId(u) \notin req[r].result.left.operations

-----------------------------------------------------------------------------
(* upload_bill over every month string *)

BillTypes == {"electricity", "fuel", "courier", "water"}

\* Every text of at most MaxMonthLen characters.
MonthStrings == UNION {[1..n -> MonthChars] : n \in 0..MaxMonthLen}

\* One upload_bill request, of any bill type and month string.
NextBill ==
    \/ /\ req[1].pc = "idle"
       /\ \E bill_type \in BillTypes, month \in MonthStrings :
             StartUploadBill(1, bill_type, 100, month)
    \/ BillInsert(1)

SpecBill == Init /\ [][NextBill]_vars

\* Exactly 7 characters with '-' at index 4 (from 0).
SevenWithDash(month) == Len(month) = 7 /\ month[5] = "-"

\* C8: upload_bill given a month string that is not exactly 7 characters
\* with '-' at index 4 answers at once with the error payload, sends no
\* statement, and leaves the utility-bill table as it was.
C8_MalformedMonthRejected ==
    /\ [](\A r \in Requests :
            (req[r].op = "upload_bill" /\ ~SevenWithDash(req[r].arg.month)) =>
                /\ req[r].pc = "done"
                /\ req[r].steps = <<>>
                /\ req[r].result = [kind |-> "error",
                                    error |-> "Invalid month format. Use YYYY-MM"])
    /\ [][\A r \in Requests :
            (req'[r].op = "upload_bill" /\ Moves(r)
                /\ ~SevenWithDash(req'[r].arg.month)) =>
                  utility_bills' = utility_bills]_vars

\* A month of 7 characters without the dash at index 4 was rejected, and the
\* bill that was in the table is still its only row.
C8_Witness ==
    \E r \in Requests :
        /\ req[r].op = "upload_bill" /\ req[r].pc = "done"
        /\ Len(req[r].arg.month) = 7 /\ req[r].arg.month[5] # "-"
        /\ req[r].arg.month[4] = "-"
        /\ req[r].result.kind = "error"
        /\ Len(utility_bills) = 1 /\ utility_bills[1].bill_id = 0

-----------------------------------------------------------------------------
(* The read handlers over the tables the warehouse may hold *)

\* The emission factors on record; factor in 1/400 kg per unit (0.71, 0,
\* 0.09, 0.06).
FactorRows ==
    {[region |-> "India", activity_type |-> "electricity", year |-> 2022,
      factor |-> 284, reference |-> "CEA 2022"],
     [region |-> "India", activity_type |-> "electricity", year |-> 2024,
      factor |-> 0, reference |-> "Captive solar 2024"],
     [region |-> "India", activity_type |-> "freight_truck", year |-> 2024,
      factor |-> 36, reference |-> "India GLEC 2024"],
     [region |-> "Global", activity_type |-> "freight_truck", year |-> 2023,
      factor |-> 24, reference |-> "GLEC 2023"]}

OperationRow(p, d, u, e, k) ==
    [product_id |-> p, units_sold |-> u, energy_kwh |-> e, transport_km |-> k,
     record_date |-> d, upload |-> 0]

\* Rows of uploaded files: a month whose units are 0, a month without
\* emissions, a row with an empty field, a product outside the catalogue.
OperationRows ==
    {OperationRow("P1", <<2024, 1, 1>>, Some(10), Some(5), Some(2)),
     OperationRow("P1", <<2024, 2, 1>>, Some(0), Some(3), Some(0)),
     OperationRow("P2", <<2024, 2, 15>>, Some(4), Some(0), Some(0)),
     OperationRow("P2", <<2024, 3, 1>>, Some(5), Some(2), Some(4)),
     OperationRow("P3", <<2024, 3, 20>>, Some(2), Null, Some(1)),
     OperationRow("P1", <<2023, 12, 31>>, Some(8), Some(6), Some(0))}

OperationTables == UNION {[1..n -> OperationRows] : n \in 0..MaxOps}

InitRead ==
    /\ operations \in OperationTables
    /\ utility_bills = <<>>
    /\ upload_log = <<>>
    /\ bucket = {}
    /\ emission_factors \in SUBSET FactorRows
    /\ req = [r \in Requests |-> IdleReq]
    /\ response = NoResponse

NextRead ==
    \/ GetTrends
    \/ \E since \in {Null, <<2024, 2, 1>>} : GetMetrics(since)

SpecRead == InitRead /\ [][NextRead]_vars

\* What the claims say of the rows of the two queries.
ClaimedCpu(row) ==
    IF OrZero(row.total_units) = 0 THEN <<0, 1>>
    ELSE <<OrZero(row.total_co2), OrZero(row.total_units)>>

\* C4 as stated: for every content of the operations table get_trends
\* returns the series of the months in chronological order, in which the
\* first month's efficiency_change is null and every later month's is
\* (cpu_i - cpu_{i-1}) / cpu_{i-1} * 100 rounded to 2 decimals.
C4_TrendSeriesForEveryTable ==
    response.kind = "trends" =>
        LET rows == TrendsQuery(operations)
        IN  /\ response.status = "ok"
            /\ Len(response.data) = Len(rows)
            /\ \A i \in 1..Len(rows) :
                  /\ response.data[i].month = rows[i].month
                  /\ i > 1 => MonthBefore(rows[i - 1].month, rows[i].month)
                  /\ response.data[i].efficiency_change =
                        IF i = 1 THEN Null
                        ELSE LET c == ClaimedCpu(rows[i])
                                 p == ClaimedCpu(rows[i - 1])
                             IN  Some(Round2((c[1] * p[2] - p[1] * c[2]) * 100,
                                             p[1] * c[2]))

\* The same, for the tables in which no month but the last has a
\* co2_per_unit of 0.
C4_TrendSeriesWhenDefined ==
    response.kind = "trends" =>
        LET rows == TrendsQuery(operations)
        IN  IF \E i \in 1..(Len(rows) - 1) : ClaimedCpu(rows[i])[1] = 0
            THEN response.status = "raised"
            ELSE C4_TrendSeriesForEveryTable

\* C7 as stated: get_metrics uses the default factor and the reference
\* "Default" when the resolver finds no matching row, and otherwise the factor
\* and the reference the resolver returned; total_co2_kg is the sum of
\* energy_co2_kg and transport_co2_kg in every row.
C7_ResolvedFactorApplied ==
    response.kind = "metrics" =>
        LET Matching(region, activity) ==
                {f \in emission_factors :
                    f.region = region /\ f.activity_type = activity}
            Applied(region, activity, default) ==
                IF Matching(region, activity) = {} THEN <<default, "Default">>
                ELSE LET f == CHOOSE f \in Matching(region, activity) :
                                  \A g \in Matching(region, activity) : g.year <= f.year
                     IN  <<f.factor, f.reference>>
            energy == Applied(Region, "electricity", 328)
            transport == Applied("Global", "freight_truck", 21)
            rows == MetricsQuery(operations, response.since)
        IN  /\ response.count = Len(rows)
            /\ \A k \in 1..Len(rows) :
                  LET d == response.data[k]
                  IN  /\ d.energy_co2_kg = OrZero(rows[k].energy) * energy[1]
                      /\ d.transport_co2_kg = OrZero(rows[k].km) * transport[1]
                      /\ d.energy_ref = energy[2]
                      /\ d.transport_ref = transport[2]
                      /\ d.total_co2_kg = d.energy_co2_kg + d.transport_co2_kg

\* The same, but for a resolved factor of 0, in whose place get_metrics
\* uses the default.
C7_FactorAppliedUnlessZero ==
    response.kind = "metrics" =>
        LET energy == get_emission_factor(Region, "electricity")
        IN  IF energy[1] = Some(0)
            THEN \A k \in 1..response.count :
                    /\ response.data[k].energy_ref = "Default"
                    /\ response.data[k].total_co2_kg =
                          response.data[k].energy_co2_kg + response.data[k].transport_co2_kg
            ELSE C7_ResolvedFactorApplied

====
